---- MODULE Spec2Model ----
(***************************************************************************)
(* A model of CommonCache (common-cache/src/lib.rs): the levelled cache,   *)
(* its cascade (insert_at_level), the size governor (set_max_size), the    *)
(* transient Entry handle and the detached, generation-stamped Index.      *)
(*                                                                         *)
(* A level's IndexMap is a sequence of [key, val] records in insertion     *)
(* order; positions are 0-based in the code and 1-based in the sequences,  *)
(* so slot i of level l is levels[l + 1][i + 1].  Every random draw is a   *)
(* nondeterministic choice over the range the code samples from.  A panic  *)
(* is recorded in `failure` and ends the run: no operation is enabled in a *)
(* state whose failure is not "none".                                      *)
(***************************************************************************)
EXTENDS Integers, Sequences, FiniteSets, TLC

\* Bounds of the model.
MaxKey == 3
MaxLevels == 3
MaxGen == 6
MaxSizeArg == 3
\* Bounds of the runs in which the client holds detached Index values.
MaxHeld == 1
MaxIndexKey == 2
MaxIndexGen == 3
\* Bound of the runs of the client that mixes the read-only calls with the rest.
MaxPeekGen == 2
\* Bound of the runs that insert two different values.
MaxValueGen == 4
\* Bound of the runs that scan the cache (find_first, iter) between the calls.
MaxScanGen == 4
\* Bound of the calls that fill the cache before a client reads one key for ever.
MaxDrainGen == 3

\* Stands for usize::MAX, the max_size of a cache built with max_size = None.
UsizeMax == 2147483647

Keys == 1..MaxKey
Vals == {"v1"}
\* The values of the runs that tell an item's old value from its new one.
ValueVals == {"v1", "v2"}
IndexKeys == 1..MaxIndexKey
\* Arguments tried for base and max_size (1 is the invalid one).
BaseArgs == {1, 2, 3}
SizeArgs == 1..MaxSizeArg

VARIABLES
    base,        \* CommonCache::base
    levels,      \* CommonCache::levels, each level the items of its IndexMap
    max_size,    \* CommonCache::max_size
    generation,  \* CommonCache::generation
    held,        \* the Index values the client holds
    requested,   \* the max_size asked for at construction or by the last set_max_size
    last,        \* the last call that changed the cache or failed ("new" at first)
    failure      \* "none", or the panic that ended the run

vars == <<base, levels, max_size, generation, held, requested, last, failure>>

NoEntry == [level |-> -1, idx |-> -1]

\* usize::saturating_sub
SaturatingSub(a, b) == IF a >= b THEN a - b ELSE 0

RECURSIVE Pow(_, _)
Pow(b, e) == IF e = 0 THEN 1 ELSE b * Pow(b, e - 1)

\* A rand_range that includes its upper end (0..=base^l).
RandRangeInclusive(l) == Pow(base, l) + 1

\* Level::rand_range of the level at index l: 0..1 for level 0, 0..base^l for
\* a level pushed by the cascade at index l.  The draw is in 0..RandRange(l)-1.
RandRange(l) == Pow(base, l)

RECURSIVE SumLens(_)
SumLens(lv) == IF lv = <<>> THEN 0 ELSE Len(Head(lv)) + SumLens(Tail(lv))

\* CommonCache::size
Size(lv) == SumLens(lv)

\* IndexMap::swap_remove_index(i) for i < len: the last item takes slot i.
SwapRemoveIndex(items, i) ==
    [j \in 1..(Len(items) - 1) |-> IF j = i + 1 THEN items[Len(items)] ELSE items[j]]

HasKey(items, k) == \E j \in 1..Len(items) : items[j].key = k

\* IndexMap::get_index_of for a key that is present.
GetIndexOf(items, k) == (CHOOSE j \in 1..Len(items) : items[j].key = k) - 1

\* IndexMap::insert: a present key keeps its slot and takes the new value, a
\* new key is appended.
IndexMapInsert(items, k, v) ==
    IF HasKey(items, k)
    THEN [items EXCEPT ![GetIndexOf(items, k) + 1].val = v]
    ELSE Append(items, [key |-> k, val |-> v])

\* The keys stored at level index l.
LevelKeys(lv, l) == {lv[l + 1][j].key : j \in 1..Len(lv[l + 1])}

AllKeys(lv) == UNION {LevelKeys(lv, l) : l \in 0..(Len(lv) - 1)}

\* Every (level, slot) of the cache, 0-based as in the code.
Slots(lv) == UNION {{<<l, j>> : j \in 0..(Len(lv[l + 1]) - 1)} : l \in 0..(Len(lv) - 1)}

KeyAt(lv, slot) == lv[slot[1] + 1][slot[2] + 1].key

\* levels.iter().enumerate().flat_map(...) of find_first and
\* levels.iter().flat_map(...) of iter: the slots of level i and of the
\* levels after it, in the order the iterator visits them.
RECURSIVE FlatMapLevels(_, _)
FlatMapLevels(lv, i) ==
    IF i >= Len(lv) THEN <<>>
    ELSE [j \in 1..Len(lv[i + 1]) |-> [level |-> i, idx |-> j - 1, item |-> lv[i + 1][j]]]
             \o FlatMapLevels(lv, i + 1)

\* find_first that keeps the last match of the scan.
FindFirstEntryKeepsLast(lv, pred) ==
    LET Accepts(x) == x.item.key \in pred
        found == SelectSeq(FlatMapLevels(lv, 0), Accepts)
    IN IF found = <<>> THEN NoEntry
       ELSE [level |-> found[Len(found)].level, idx |-> found[Len(found)].idx]

\* CommonCache::find_first: the scan filtered by the predicate (the set of
\* keys it accepts) and its first element, if any.
FindFirstEntry(lv, pred) ==
    LET Accepts(x) == x.item.key \in pred
        found == SelectSeq(FlatMapLevels(lv, 0), Accepts)
    IN IF found = <<>> THEN NoEntry
       ELSE [level |-> found[1].level, idx |-> found[1].idx]

\* An iteration that visits the levels from the bottom.
IterItemsBottomUp(lv) ==
    [p \in 1..Len(FlatMapLevels(lv, 0)) |->
         FlatMapLevels(lv, 0)[Len(FlatMapLevels(lv, 0)) + 1 - p].item]

\* CommonCache::iter: the items in the order they are yielded.
IterItems(lv) ==
    [p \in 1..Len(FlatMapLevels(lv, 0)) |-> FlatMapLevels(lv, 0)[p].item]

\* CommonCache::entry: the first level holding the key, and its slot there.
HasEntry(lv, k) == \E l \in 0..(Len(lv) - 1) : HasKey(lv[l + 1], k)

EntryOf(lv, k) ==
    LET l == CHOOSE l \in 0..(Len(lv) - 1) :
                 /\ HasKey(lv[l + 1], k)
                 /\ \A m \in 0..(l - 1) : ~HasKey(lv[m + 1], k)
    IN [level |-> l, idx |-> GetIndexOf(lv[l + 1], k)]

\* Entry::index_and_cache: the Index of an Entry; `key` is the key the slot
\* held when the Index was made (not a field of the code's Index, kept to
\* state what the Index was created for).
IndexOfEntry(lv, e, gen) ==
    [level |-> e.level, idx |-> e.idx, generation |-> gen,
     key |-> lv[e.level + 1][e.idx + 1].key]

\* Entry::peek_key_value and Index::peek_key_value after the generation check.
PeekSlot(lv, level, idx) ==
    IF level >= Len(lv) THEN [failure |-> "index_out_of_bounds"]
    ELSE IF idx >= Len(lv[level + 1]) THEN [failure |-> "unwrap_none"]
    ELSE [failure |-> "none", item |-> lv[level + 1][idx + 1]]

\* assert_generation without the comparison.
AssertGenerationSkipped(ix, gen) == "none"

\* Index::assert_generation
AssertGeneration(ix, gen) == IF ix.generation = gen THEN "none" ELSE "stale"

\* remove_from that reads the item and leaves it in its level.
RemoveFromLeavesItem(lv, gen, ix) ==
    IF ix.generation # gen THEN [levels |-> lv, failure |-> "stale"]
    ELSE IF ix.level >= Len(lv) THEN [levels |-> lv, failure |-> "index_out_of_bounds"]
    ELSE IF ix.idx >= Len(lv[ix.level + 1]) THEN [levels |-> lv, failure |-> "unwrap_none"]
    ELSE [levels |-> lv, failure |-> "none", item |-> lv[ix.level + 1][ix.idx + 1]]

\* remove_from that drops the bottommost level whenever the item's own level
\* became empty, without checking that this level is the bottommost one.
RemoveFromDropsBottom(lv, gen, ix) ==
    IF ix.generation # gen THEN [levels |-> lv, failure |-> "stale"]
    ELSE IF ix.level >= Len(lv) THEN [levels |-> lv, failure |-> "index_out_of_bounds"]
    ELSE IF ix.idx >= Len(lv[ix.level + 1]) THEN [levels |-> lv, failure |-> "unwrap_none"]
    ELSE LET item == lv[ix.level + 1][ix.idx + 1]
             rem == [lv EXCEPT ![ix.level + 1] = SwapRemoveIndex(@, ix.idx)]
         IN [levels |-> IF rem[ix.level + 1] = <<>>
                        THEN SubSeq(rem, 1, Len(rem) - 1)
                        ELSE rem,
             failure |-> "none",
             item |-> item]

\* Index::remove_from
RemoveFrom(lv, gen, ix) ==
    IF AssertGeneration(ix, gen) # "none"
    THEN [levels |-> lv, failure |-> AssertGeneration(ix, gen)]
    ELSE IF ix.level >= Len(lv) THEN [levels |-> lv, failure |-> "index_out_of_bounds"]
    ELSE IF ix.idx >= Len(lv[ix.level + 1]) THEN [levels |-> lv, failure |-> "unwrap_none"]
    ELSE LET item == lv[ix.level + 1][ix.idx + 1]
             rem == [lv EXCEPT ![ix.level + 1] = SwapRemoveIndex(@, ix.idx)]
         IN [levels |-> IF rem[ix.level + 1] = <<>> /\ ix.level = Len(lv) - 1
                        THEN SubSeq(rem, 1, Len(rem) - 1)
                        ELSE rem,
             failure |-> "none",
             item |-> item]

\* insert_at_level without the increment of the generation.
BumpGenerationForgotten(gen) == gen

\* insert_at_level: "increment the generation immediately".
BumpGeneration(gen) == gen + 1

\* set_max_size without the increment of the generation.
ShrinkGenerationForgotten(gen) == gen

\* set_max_size: the generation after a shrinking call.
ShrinkGeneration(gen) == gen + 1

\* An eviction step that does not compare size() with max_size: it removes
\* an item of the last level whenever there is one.
EvictOutcomesAlways(lv) ==
    IF lv = <<>> \/ Len(lv[Len(lv)]) = 0 THEN {[levels |-> lv, failure |-> "none"]}
    ELSE {LET rem == [lv EXCEPT ![Len(lv)] = SwapRemoveIndex(@, r)]
          IN [levels |-> IF rem[Len(rem)] = <<>> THEN SubSeq(rem, 1, Len(rem) - 1) ELSE rem,
              failure |-> "none"]
          : r \in 0..(Len(lv[Len(lv)]) - 1)}

\* insert_at_level, the step at size() == max_size: one item of the last
\* level, drawn over its actual length, is removed.
EvictOutcomes(lv) ==
    IF Size(lv) # max_size THEN {[levels |-> lv, failure |-> "none"]}
    ELSE IF lv = <<>> THEN {[levels |-> lv, failure |-> "unwrap_none"]}
    ELSE IF Len(lv[Len(lv)]) = 0 THEN {[levels |-> lv, failure |-> "empty_range"]}
    ELSE {LET rem == [lv EXCEPT ![Len(lv)] = SwapRemoveIndex(@, r)]
          IN [levels |-> IF rem[Len(rem)] = <<>> THEN SubSeq(rem, 1, Len(rem) - 1) ELSE rem,
              failure |-> "none"]
          : r \in 0..(Len(lv[Len(lv)]) - 1)}

\* The cascade step that copies the drawn item to the level below and leaves
\* it in its own level too.
CascadeStepCopy(lv, level, i, create) ==
    IF i < Len(lv[level + 1])
    THEN LET item == lv[level + 1][i + 1]
         IN IF level # Len(lv) - 1
            THEN [lv EXCEPT ![level + 2] = IndexMapInsert(@, item.key, item.val)]
            ELSE IF create THEN Append(lv, <<item>>)
            ELSE lv
    ELSE lv

\* The cascade step that pushes a new level under the last one whatever
\* CREATE_NEW_LEVELS says.
CascadeStepAlwaysCreates(lv, level, i, create) ==
    IF i < Len(lv[level + 1])
    THEN LET item == lv[level + 1][i + 1]
             rem == [lv EXCEPT ![level + 1] = SwapRemoveIndex(@, i)]
         IN IF level # Len(lv) - 1
            THEN [rem EXCEPT ![level + 2] = IndexMapInsert(@, item.key, item.val)]
            ELSE Append(rem, <<item>>)
    ELSE lv

\* The cascade step that leaves an item drawn in the last level where it is
\* when no level may be created, instead of dropping it.
CascadeStepKeepsLast(lv, level, i, create) ==
    IF i < Len(lv[level + 1])
    THEN LET item == lv[level + 1][i + 1]
             rem == [lv EXCEPT ![level + 1] = SwapRemoveIndex(@, i)]
         IN IF level # Len(lv) - 1
            THEN [rem EXCEPT ![level + 2] = IndexMapInsert(@, item.key, item.val)]
            ELSE IF create THEN Append(rem, <<item>>)
            ELSE lv
    ELSE lv

\* insert_at_level, the body of the cascade loop at one level with draw i.
CascadeStep(lv, level, i, create) ==
    IF i < Len(lv[level + 1])
    THEN LET item == lv[level + 1][i + 1]
             rem == [lv EXCEPT ![level + 1] = SwapRemoveIndex(@, i)]
         IN IF level # Len(lv) - 1
            THEN [rem EXCEPT ![level + 2] = IndexMapInsert(@, item.key, item.val)]
            ELSE IF create THEN Append(rem, <<item>>)
            ELSE rem
    ELSE lv

\* The draws of rand_range.sample at one level that differ in effect: a draw
\* at or above the level's length removes nothing (swap_remove_index gives
\* None), so the least of them stands for all of them.
Draws(lv, level) ==
    0..(IF RandRange(level) - 1 <= Len(lv[level + 1])
        THEN RandRange(level) - 1
        ELSE Len(lv[level + 1]))

\* The cascade loop without the .rev(): it walks from `target` down to the
\* level that was the last one, so an item it moved can be drawn again.
RECURSIVE CascadeFromTopDown(_, _, _, _)
CascadeFromTopDown(S, level, target, create) ==
    IF level < target THEN S
    ELSE CascadeFromTopDown(UNION {{CascadeStep(lv, target, i, create) : i \in Draws(lv, target)} :
                                       lv \in S},
                            level, target + 1, create)

\* insert_at_level, the cascade loop from `level` down to `target`, over every draw.
RECURSIVE CascadeFrom(_, _, _, _)
CascadeFrom(S, level, target, create) ==
    IF level < target THEN S
    ELSE CascadeFrom(UNION {{CascadeStep(lv, level, i, create) : i \in Draws(lv, level)} :
                                lv \in S},
                     level - 1, target, create)

\* The final placement that returns the first slot of the level instead of
\* the slot insert_full reports.
PlaceReturnsFirstSlot(lv, key, value, level) ==
    IF HasKey(lv[level + 1], key)
    THEN [levels |-> [lv EXCEPT ![level + 1] = IndexMapInsert(@, key, value)],
          failure |-> "unreachable", entry |-> NoEntry]
    ELSE [levels |-> [lv EXCEPT ![level + 1] = IndexMapInsert(@, key, value)],
          failure |-> "none",
          entry |-> [level |-> level, idx |-> 0]]

\* insert_at_level, the final placement (insert_full and the let-else).
Place(lv, key, value, level) ==
    IF HasKey(lv[level + 1], key)
    THEN [levels |-> [lv EXCEPT ![level + 1] = IndexMapInsert(@, key, value)],
          failure |-> "unreachable", entry |-> NoEntry]
    ELSE [levels |-> [lv EXCEPT ![level + 1] = IndexMapInsert(@, key, value)],
          failure |-> "none",
          entry |-> [level |-> level, idx |-> Len(lv[level + 1])]]

\* insert_at_level: every outcome (levels, failure, returned Entry) over the
\* draws; the generation is advanced by the calling action.
InsertAtLevel(lv, key, value, level, create) ==
    UNION {IF e.failure # "none"
           THEN {[levels |-> e.levels, failure |-> e.failure, entry |-> NoEntry]}
           ELSE LET l1 == IF e.levels = <<>> THEN << <<>> >> ELSE e.levels
                IN IF level >= Len(l1)
                   THEN {[levels |-> l1, failure |-> "index_out_of_bounds", entry |-> NoEntry]}
                   ELSE {Place(l2, key, value, level) :
                             l2 \in CascadeFrom({l1}, Len(l1) - 1, level, create)}
           : e \in EvictOutcomes(lv)}

\* set_max_size without the inner loop that removes the surplus items.
RemoveRandomForgotten(S, cnt) == S

\* set_max_size, the inner loop: cnt removals from one level, each drawn by
\* gen_range over the level's actual length (which panics on an empty range).
RECURSIVE RemoveRandom(_, _)
RemoveRandom(S, cnt) ==
    IF cnt = 0 THEN S
    ELSE RemoveRandom(UNION {IF o.failure # "none" THEN {o}
                             ELSE IF Len(o.items) = 0
                             THEN {[items |-> o.items, failure |-> "empty_range"]}
                             ELSE {[items |-> SwapRemoveIndex(o.items, r), failure |-> "none"] :
                                       r \in 0..(Len(o.items) - 1)}
                             : o \in S},
                      cnt - 1)

\* set_max_size, the loop over the levels from iteration i with running sum.
RECURSIVE ShrinkFrom(_, _, _, _)
ShrinkFrom(lv, i, sum, n) ==
    IF i >= Len(lv) THEN {[levels |-> lv, failure |-> "none"]}
    ELSE IF sum = n THEN {[levels |-> SubSeq(lv, 1, i), failure |-> "none"]}
    ELSE IF sum + Len(lv[i + 1]) > n
    THEN {[levels |-> SubSeq([lv EXCEPT ![i + 1] = o.items], 1, i + 1), failure |-> o.failure] :
              o \in RemoveRandom({[items |-> lv[i + 1], failure |-> "none"]},
                                 sum + Len(lv[i + 1]) - n)}
    ELSE ShrinkFrom(lv, i + 1, sum + Len(lv[i + 1]), n)

Running == failure = "none"

\* The check of max_size that lets 1 through.
ValidMaxSizeOffByOne(m) == m >= 1

\* The assert!(max_size >= 2) of new_with_rng and of set_max_size.
ValidMaxSize(m) == m >= 2

\* The assert!(base >= 2) of new_with_rng.
ValidBase(b) == b >= 2

\* CommonCache::new_with_rng with each base and max_size argument.
Init ==
    \E b \in BaseArgs, m \in SizeArgs \cup {UsizeMax} :
        /\ base = b
        /\ max_size = m
        /\ requested = m
        /\ levels = <<>>
        /\ generation = 0
        /\ held = {}
        /\ last = "new"
        /\ failure = IF ~ValidMaxSize(m) \/ ~ValidBase(b)
                     THEN "invalid_configuration" ELSE "none"

\* An insert that puts a new key in the lowest level (saturating_sub(1))
\* instead of the second lowest.
InsertOutcomesInLowest(lv, gen, key, value) ==
    LET present == HasEntry(lv, key)
        e == EntryOf(lv, key)
        removed == RemoveFrom(lv, gen, IndexOfEntry(lv, e, gen))
        lv1 == IF present THEN removed.levels ELSE lv
        insert_level == IF present THEN SaturatingSub(e.level, 1)
                        ELSE SaturatingSub(Len(lv), 1)
    IN InsertAtLevel(lv1, key, value, insert_level, TRUE)

\* CommonCache::insert: every outcome (levels, failure, returned Entry) over
\* the draws.
InsertOutcomes(lv, gen, key, value) ==
    LET present == HasEntry(lv, key)
        e == EntryOf(lv, key)
        removed == RemoveFrom(lv, gen, IndexOfEntry(lv, e, gen))
        lv1 == IF present THEN removed.levels ELSE lv
        insert_level == IF present THEN SaturatingSub(e.level, 1)
                        ELSE SaturatingSub(Len(lv), 2)
    IN InsertAtLevel(lv1, key, value, insert_level, TRUE)

\* CommonCache::insert
Insert(key, value) ==
    /\ Running
    /\ generation < MaxGen
    /\ generation' = BumpGeneration(generation)
    /\ last' = "insert"
    /\ UNCHANGED <<base, max_size, held, requested>>
    /\ \E o \in InsertOutcomes(levels, generation, key, value) :
           /\ Len(o.levels) <= MaxLevels
           /\ levels' = o.levels
           /\ failure' = o.failure

\* A get that puts the item back at the level it was found at.
GetLevelUnpromoted(curr_level) == curr_level

\* Entry::get_key_value and Index::get_key_value: the level the item is
\* inserted at, curr_level.saturating_sub(1).
GetLevel(curr_level) == SaturatingSub(curr_level, 1)

\* Entry::get_key_value on the Entry that entry(key) returns, for a key that
\* is in the cache: every outcome (levels, failure, re-resolved Entry) over
\* the draws.
GetOutcomes(lv, gen, key) ==
    LET e == EntryOf(lv, key)
        removed == RemoveFrom(lv, gen, IndexOfEntry(lv, e, gen))
    IN InsertAtLevel(removed.levels, removed.item.key, removed.item.val,
                     GetLevel(e.level), FALSE)

\* Entry::get_key_value, Entry::get_value and Entry::get_long on the Entry
\* that entry(key) returns.
EntryGet(key) ==
    /\ Running
    /\ generation < MaxGen
    /\ generation' = BumpGeneration(generation)
    /\ last' = "get"
    /\ UNCHANGED <<base, max_size, held, requested>>
    /\ HasEntry(levels, key)
    /\ \E o \in GetOutcomes(levels, generation, key) :
           /\ levels' = o.levels
           /\ failure' = IF o.failure # "none" THEN o.failure
                         ELSE PeekSlot(o.levels, o.entry.level, o.entry.idx).failure

\* Entry::remove on the Entry that entry(key) returns.
EntryRemove(key) ==
    /\ Running
    /\ last' = "remove"
    /\ UNCHANGED <<base, max_size, generation, held, requested>>
    /\ HasEntry(levels, key)
    /\ LET e == EntryOf(levels, key)
           removed == RemoveFrom(levels, generation, IndexOfEntry(levels, e, generation))
       IN /\ levels' = removed.levels
          /\ failure' = removed.failure

\* A peek that promotes the item as a get does.
EntryPeekPromotes(key) == EntryGet(key)

\* Entry::peek_key_value, peek_key, peek_value, peek_key_value_mut,
\* peek_value_mut and peek_long on the Entry that entry(key) returns.
EntryPeek(key) ==
    /\ Running
    /\ UNCHANGED <<base, levels, max_size, generation, held, requested>>
    /\ HasEntry(levels, key)
    /\ LET e == EntryOf(levels, key)
           peeked == PeekSlot(levels, e.level, e.idx)
       IN /\ failure' = peeked.failure
          /\ last' = IF peeked.failure # "none" THEN "peek" ELSE last

\* CommonCache::iter, iter_mut, size and max_size.
Iter ==
    /\ Running
    /\ UNCHANGED vars

\* CommonCache::find_first with a predicate on the key, and a peek on the
\* Entry it returns if it returns one.
FindFirst(pred) ==
    /\ Running
    /\ UNCHANGED <<base, levels, max_size, generation, held, requested>>
    /\ LET e == FindFirstEntry(levels, pred)
           result == IF e = NoEntry THEN "none" ELSE PeekSlot(levels, e.level, e.idx).failure
       IN /\ failure' = result
          /\ last' = IF result # "none" THEN "peek" ELSE last

\* CommonCache::set_max_size
SetMaxSize(n) ==
    /\ Running
    /\ last' = "set_max_size"
    /\ IF ~ValidMaxSize(n)
       THEN /\ failure' = "invalid_argument"
            /\ UNCHANGED <<base, levels, max_size, generation, held, requested>>
       ELSE IF n >= max_size
       THEN /\ max_size' = n
            /\ requested' = n
            /\ UNCHANGED <<base, levels, generation, held, failure>>
       ELSE /\ generation < MaxGen
            /\ \E o \in ShrinkFrom(levels, 0, 0, n) :
                   /\ levels' = o.levels
                   /\ failure' = o.failure
            /\ generation' = ShrinkGeneration(generation)
            /\ requested' = n
            /\ UNCHANGED <<base, max_size, held>>

\* clear without the increment of the generation.
ClearKeepsGeneration ==
    /\ Running
    /\ levels' = <<>>
    /\ last' = "clear"
    /\ UNCHANGED <<base, max_size, generation, held, requested, failure>>

\* CommonCache::clear
Clear ==
    /\ Running
    /\ generation < MaxGen
    /\ levels' = <<>>
    /\ generation' = generation + 1
    /\ last' = "clear"
    /\ UNCHANGED <<base, max_size, held, requested, failure>>

\* Entry::index on the Entry that entry(key) returns: the client keeps the Index.
TakeIndex(key) ==
    /\ Running
    /\ Cardinality(held) < MaxHeld
    /\ HasEntry(levels, key)
    /\ held' = held \cup {IndexOfEntry(levels, EntryOf(levels, key), generation)}
    /\ UNCHANGED <<base, levels, max_size, generation, requested, last, failure>>

\* The client drops an Index it holds.
DropIndex(ix) ==
    /\ Running
    /\ ix \in held
    /\ held' = held \ {ix}
    /\ UNCHANGED <<base, levels, max_size, generation, requested, last, failure>>

\* Index::peek_key_value, peek_key, peek_value, peek_key_value_mut and
\* peek_value_mut on a held Index.
IndexPeek(ix) ==
    /\ Running
    /\ ix \in held
    /\ UNCHANGED <<base, levels, max_size, generation, held, requested>>
    /\ LET checked == AssertGeneration(ix, generation)
           result == IF checked # "none" THEN checked
                     ELSE PeekSlot(levels, ix.level, ix.idx).failure
       IN /\ failure' = result
          /\ last' = IF result # "none" THEN "index_peek" ELSE last

\* Index::get_key_value and Index::get_value on (a clone of) a held Index.
IndexGet(ix) ==
    /\ Running
    /\ generation < MaxGen
    /\ ix \in held
    /\ last' = "index_get"
    /\ UNCHANGED <<base, max_size, held, requested>>
    /\ LET removed == RemoveFrom(levels, generation, ix)
       IN IF removed.failure # "none"
          THEN /\ failure' = removed.failure
               /\ UNCHANGED <<levels, generation>>
          ELSE /\ \E o \in InsertAtLevel(removed.levels, removed.item.key, removed.item.val,
                                         GetLevel(ix.level), FALSE) :
                      /\ levels' = o.levels
                      /\ failure' = o.failure
               /\ generation' = BumpGeneration(generation)

\* Index::entry followed by Entry::remove on (a clone of) a held Index.
IndexRemove(ix) ==
    /\ Running
    /\ ix \in held
    /\ last' = "index_remove"
    /\ UNCHANGED <<base, max_size, generation, held, requested>>
    /\ LET checked == AssertGeneration(ix, generation)
           removed == RemoveFrom(levels, generation, [ix EXCEPT !.generation = generation])
       IN IF checked # "none"
          THEN /\ failure' = checked
               /\ UNCHANGED levels
          ELSE /\ levels' = removed.levels
               /\ failure' = removed.failure

\* The cache used through its own operations and transient Entry handles.
Next ==
    \/ \E k \in Keys, v \in Vals : Insert(k, v)
    \/ \E k \in Keys : EntryGet(k)
    \/ \E k \in Keys : EntryRemove(k)
    \/ \E k \in Keys : EntryPeek(k)
    \/ Iter
    \/ \E n \in SizeArgs : SetMaxSize(n)
    \/ Clear

Spec == Init /\ [][Next]_vars

\* The same, with a client that also keeps detached Index values and uses
\* them later; these runs use the keys of IndexKeys and stop at generation
\* MaxIndexGen.
NextIndex ==
    \/ (\E k \in IndexKeys, v \in Vals : Insert(k, v)) /\ generation' <= MaxIndexGen
    \/ (\E k \in IndexKeys : EntryGet(k)) /\ generation' <= MaxIndexGen
    \/ \E k \in IndexKeys : EntryRemove(k)
    \/ (\E n \in SizeArgs : SetMaxSize(n)) /\ generation' <= MaxIndexGen
    \/ Clear /\ generation' <= MaxIndexGen
    \/ \E k \in IndexKeys : TakeIndex(k)
    \/ \E ix \in held : DropIndex(ix)
    \/ \E ix \in held : IndexPeek(ix)
    \/ (\E ix \in held : IndexGet(ix)) /\ generation' <= MaxIndexGen
    \/ \E ix \in held : IndexRemove(ix)

SpecIndex == Init /\ [][NextIndex]_vars

\* A client that uses every read-only call of the cache, of an Entry and of
\* a held Index between the calls that change the cache; these runs use the
\* keys of IndexKeys and stop at generation MaxPeekGen.
NextPeek ==
    \/ (\E k \in IndexKeys, v \in Vals : Insert(k, v)) /\ generation' <= MaxPeekGen
    \/ (\E k \in IndexKeys : EntryGet(k)) /\ generation' <= MaxPeekGen
    \/ \E k \in IndexKeys : EntryRemove(k)
    \/ (\E n \in SizeArgs : SetMaxSize(n)) /\ generation' <= MaxPeekGen
    \/ Clear /\ generation' <= MaxPeekGen
    \/ \E k \in IndexKeys : TakeIndex(k)
    \/ \E ix \in held : DropIndex(ix)
    \/ \E k \in IndexKeys : EntryPeek(k)
    \/ Iter
    \/ \E pred \in SUBSET IndexKeys : FindFirst(pred)
    \/ \E ix \in held : IndexPeek(ix)
    \/ (\E ix \in held : IndexGet(ix)) /\ generation' <= MaxPeekGen
    \/ \E ix \in held : IndexRemove(ix)

SpecPeek == Init /\ [][NextPeek]_vars

\* The cache used through its own operations and transient Entry handles,
\* with two values to insert; these runs use the keys of IndexKeys and stop
\* at generation MaxValueGen.
NextValues ==
    \/ (\E k \in IndexKeys, v \in ValueVals : Insert(k, v)) /\ generation' <= MaxValueGen
    \/ (\E k \in IndexKeys : EntryGet(k)) /\ generation' <= MaxValueGen
    \/ \E k \in IndexKeys : EntryRemove(k)
    \/ \E k \in IndexKeys : EntryPeek(k)
    \/ Iter
    \/ (\E n \in SizeArgs : SetMaxSize(n)) /\ generation' <= MaxValueGen
    \/ Clear /\ generation' <= MaxValueGen

SpecValues == Init /\ [][NextValues]_vars

\* The cache used through its own operations, its scans (iter, find_first)
\* and transient Entry handles; these runs stop at generation MaxScanGen.
NextScan ==
    \/ (\E k \in Keys, v \in Vals : Insert(k, v)) /\ generation' <= MaxScanGen
    \/ (\E k \in Keys : EntryGet(k)) /\ generation' <= MaxScanGen
    \/ \E k \in Keys : EntryRemove(k)
    \/ \E k \in Keys : EntryPeek(k)
    \/ Iter
    \/ \E pred \in SUBSET Keys : FindFirst(pred)
    \/ (\E n \in SizeArgs : SetMaxSize(n)) /\ generation' <= MaxScanGen
    \/ Clear /\ generation' <= MaxScanGen

SpecScan == Init /\ [][NextScan]_vars

\* The key that the client of SpecDrain reads for ever; the cache only
\* compares keys for equality, so any key stands for every other.
DrainKey == MaxIndexKey

\* Entry::get_key_value on the Entry of DrainKey, by a client that from its
\* first such call on makes no other call.  The u64 generation is kept
\* modulo MaxDrainGen + 1 in these runs: a get through a fresh Entry never
\* reads it, and the calls go on for ever.
DrainGet ==
    /\ Running
    /\ HasEntry(levels, DrainKey)
    /\ last' = "drain_get"
    /\ generation' = BumpGeneration(generation) % (MaxDrainGen + 1)
    /\ UNCHANGED <<base, max_size, held, requested>>
    /\ \E o \in GetOutcomes(levels, generation, DrainKey) :
           /\ levels' = o.levels
           /\ failure' = IF o.failure # "none" THEN o.failure
                         ELSE PeekSlot(o.levels, o.entry.level, o.entry.idx).failure

\* A DrainGet in which some rand_range.sample draw is below its level's
\* length: an item other than DrainKey leaves its level.
DrainHit ==
    /\ DrainGet
    /\ \E k \in IndexKeys \ {DrainKey} :
           /\ HasEntry(levels, k)
           /\ ~HasEntry(levels', k) \/ EntryOf(levels', k).level # EntryOf(levels, k).level

\* A client that fills the cache with at most MaxDrainGen calls and then
\* only reads DrainKey.
NextDrain ==
    \/ last # "drain_get" /\ generation < MaxDrainGen /\ \E k \in IndexKeys, v \in Vals : Insert(k, v)
    \/ last # "drain_get" /\ generation < MaxDrainGen /\ \E k \in IndexKeys : EntryGet(k)
    \/ last # "drain_get" /\ \E k \in IndexKeys : EntryRemove(k)
    \/ DrainGet

\* The client keeps calling, and the random source is fair: a draw that hits
\* an item keeps occurring as long as one is possible.
SpecDrain == Init /\ [][NextDrain]_vars /\ WF_vars(DrainGet) /\ WF_vars(DrainHit)

(***************************************************************************)
(* C1: size() <= m in every reachable state, where m is the max_size given *)
(* at construction or by the most recent set_max_size(n) call.             *)
(***************************************************************************)
C1_SizeWithinRequestedMax == Size(levels) <= requested

(***************************************************************************)
(* C2: if there are levels, the last (bottommost) level holds at least one *)
(* item.                                                                   *)
(***************************************************************************)
C2_LastLevelNotEmpty == levels # <<>> => levels[Len(levels)] # <<>>

(***************************************************************************)
(* C3: insert, get* on a fresh Entry, Entry::remove and peek* complete     *)
(* without a panic from every reachable state.                             *)
(***************************************************************************)
C3_OperationsComplete ==
    last \in {"insert", "get", "remove", "peek"} => failure = "none"

(***************************************************************************)
(* C4: each key occupies at most one (level, slot) across all levels.      *)
(***************************************************************************)
C4_KeyInOneSlot ==
    \A k \in Keys : Cardinality({s \in Slots(levels) : KeyAt(levels, s) = k}) <= 1

\* All keys are stored, spread over three levels or more, after more
\* inserts and promotions than there are keys.
C4_Witness ==
    /\ failure = "none"
    /\ last \in {"insert", "get"}
    /\ AllKeys(levels) = Keys
    /\ Len(levels) >= 3
    /\ generation > MaxKey

(***************************************************************************)
(* C5: after set_max_size(n) with n >= 2 returns, max_size() = n, when n   *)
(* is at least the previous max_size and when it is smaller.               *)
(***************************************************************************)
C5_SetMaxSizeStores ==
    [][\A n \in SizeArgs :
           (n >= 2 /\ SetMaxSize(n) /\ failure' = "none") => max_size' = n]_vars

(***************************************************************************)
(* C6: every operation of an Index whose generation differs from the       *)
(* cache's fails with the stale-handle failure and leaves levels, items    *)
(* and generation as they were.                                            *)
(***************************************************************************)
C6_StaleIndexRejected ==
    [][\A ix \in held :
           (/\ ix.generation # generation
            /\ IndexPeek(ix) \/ IndexGet(ix) \/ IndexRemove(ix))
           => (failure' = "stale" /\ levels' = levels /\ generation' = generation)]_vars

\* A stale Index was used on a cache that holds items.
C6_Witness ==
    /\ failure = "stale"
    /\ last \in {"index_peek", "index_get", "index_remove"}
    /\ Size(levels) >= 1

(***************************************************************************)
(* C7: an Index whose generation equals the cache's resolves to an         *)
(* occupied slot that holds the key the Index was created for.             *)
(***************************************************************************)
C7_MatchingIndexResolves ==
    \A ix \in held :
        ix.generation = generation =>
            /\ PeekSlot(levels, ix.level, ix.idx).failure = "none"
            /\ PeekSlot(levels, ix.level, ix.idx).item.key = ix.key

(***************************************************************************)
(* C8: Entry::remove strictly increases the generation.                    *)
(***************************************************************************)
C8_RemoveAdvancesGeneration ==
    [][(\E k \in Keys : EntryRemove(k)) => generation' > generation]_vars

(***************************************************************************)
(* C9: each call of insert and each call of get* that returns advances the *)
(* generation by exactly one, and no operation decreases the generation.   *)
(***************************************************************************)
C9_GenerationAdvancesByOne ==
    [][/\ (\/ \E k \in Keys, v \in Vals : Insert(k, v)
           \/ \E k \in Keys : EntryGet(k)
           \/ \E ix \in held : IndexGet(ix) /\ failure' = "none")
          => generation' = generation + 1
       /\ generation' >= generation]_vars

\* A get through an Index has returned, after an earlier insert.
C9_Witness ==
    /\ last = "index_get"
    /\ failure = "none"
    /\ generation >= 2

(***************************************************************************)
(* C10: set_max_size(n) with n below the current max_size strictly         *)
(* increases the generation, also when nothing is removed; with n at least *)
(* the current max_size it leaves generation, levels and items unchanged.  *)
(***************************************************************************)
C10_ShrinkBumpsGrowKeeps ==
    [][\A n \in SizeArgs :
           (n >= 2 /\ SetMaxSize(n)) =>
               IF n < max_size
               THEN generation' > generation
               ELSE generation' = generation /\ levels' = levels]_vars

\* A shrinking set_max_size(n) has returned on a cache that holds fewer than
\* n items, so it removed nothing (max_size keeps the old value, see C5).
C10_Witness ==
    /\ last = "set_max_size"
    /\ failure = "none"
    /\ requested < max_size
    /\ Size(levels) >= 1
    /\ Size(levels) < requested

\* An Index the client holds that passes the generation check and whose slot
\* is the one entry(k) finds.
IndexResolvesTo(ix, k) ==
    /\ ix.generation = generation
    /\ HasEntry(levels, k)
    /\ ix.level = EntryOf(levels, k).level
    /\ ix.idx = EntryOf(levels, k).idx

(***************************************************************************)
(* C11: a get* on an Entry, or on a valid Index, of key k found at level p *)
(* leaves k in the cache at level max(p - 1, 0), whatever the draws.       *)
(***************************************************************************)
C11_GetPromotesOneLevel ==
    [][last' \in {"get", "index_get"} =>
           \A k \in Keys :
               (/\ HasEntry(levels, k)
                /\ \/ EntryGet(k)
                   \/ \E ix \in held : IndexResolvesTo(ix, k) /\ IndexGet(ix))
               => /\ HasEntry(levels', k)
                  /\ EntryOf(levels', k).level =
                         IF EntryOf(levels, k).level = 0 THEN 0
                         ELSE EntryOf(levels, k).level - 1]_vars

\* A get through an Index has returned and left its key the only item of
\* the cache, in the top level.
C11_Witness ==
    /\ last = "index_get"
    /\ failure = "none"
    /\ Len(levels) = 1
    /\ Size(levels) = 1

(***************************************************************************)
(* C12: a get* never grows the cache: afterwards there are no more levels  *)
(* than before, size() is the same or smaller by exactly one, and at most  *)
(* one key has left the cache.                                             *)
(***************************************************************************)
C12_GetNeverGrows ==
    [][(/\ last' \in {"get", "index_get"}
        /\ \/ \E k \in Keys : EntryGet(k)
           \/ \E ix \in held : IndexGet(ix))
       => /\ Len(levels') <= Len(levels)
          /\ Size(levels') \in {Size(levels), Size(levels) - 1}
          /\ AllKeys(levels') \subseteq AllKeys(levels)
          /\ Cardinality(AllKeys(levels) \ AllKeys(levels')) <= 1]_vars

\* Two keys were inserted and the get that followed pushed the other key out
\* of the bottom level: one item is left and the bottom level is empty.
C12_Witness ==
    /\ last = "get"
    /\ failure = "none"
    /\ generation = 3
    /\ Len(levels) = 2
    /\ levels[2] = <<>>
    /\ Size(levels) = 1

(***************************************************************************)
(* C13: insert(k, v) of a key that is not in the cache, at size() below    *)
(* max_size, increases size() by exactly one and keeps every key that was  *)
(* present, whatever the draws; so the keys iterated after inserting n     *)
(* distinct keys into an empty cache are exactly those n keys.             *)
(***************************************************************************)
C13_InsertBelowMaxKeepsAll ==
    [][last' = "insert" =>
           \A k \in Keys, v \in Vals :
               (/\ ~HasEntry(levels, k)
                /\ Size(levels) < max_size
                /\ Insert(k, v))
               => /\ failure' = "none"
                  /\ Size(levels') = Size(levels) + 1
                  /\ AllKeys(levels') = AllKeys(levels) \cup {k}]_vars

\* Every key was inserted once into the empty cache, nothing else advanced
\* the generation, and all of them are iterated.
C13_Witness ==
    /\ last = "insert"
    /\ failure = "none"
    /\ generation = MaxKey
    /\ Size(levels) = MaxKey
    /\ AllKeys(levels) = Keys

(***************************************************************************)
(* C14: insert(k, v) of a key that is not in the cache, at size() equal to *)
(* max_size, leaves size() = max_size with k present and exactly one of    *)
(* the earlier keys gone; that key was in the bottommost level before the  *)
(* call, and every key of a level above the bottommost is still present.   *)
(***************************************************************************)
C14_InsertAtMaxEvictsFromBottom ==
    [][last' = "insert" =>
           \A k \in Keys, v \in Vals :
               (/\ ~HasEntry(levels, k)
                /\ Size(levels) = max_size
                /\ Insert(k, v))
               => /\ Size(levels') = max_size
                  /\ \E gone \in LevelKeys(levels, Len(levels) - 1) :
                         AllKeys(levels') = (AllKeys(levels) \ {gone}) \cup {k}]_vars

(***************************************************************************)
(* C15: set_max_size(n) with 2 <= n < max_size on a cache of size s        *)
(* returns without a failure and leaves size() = min(s, n); the keys kept  *)
(* are among the earlier ones, no key is removed from a level while a key  *)
(* of a lower level is kept, and every level below the one where the       *)
(* running total reaches n is dropped.                                     *)
(***************************************************************************)
C15_ShrinkKeepsUpperLevels ==
    [][last' = "set_max_size" =>
           \A n \in SizeArgs :
               (n >= 2 /\ n < max_size /\ SetMaxSize(n)) =>
                   /\ failure' = "none"
                   /\ Size(levels') = IF Size(levels) < n THEN Size(levels) ELSE n
                   /\ AllKeys(levels') \subseteq AllKeys(levels)
                   /\ \A i, j \in 0..(Len(levels) - 1) :
                          (i < j /\ LevelKeys(levels, i) \ AllKeys(levels') # {})
                              => LevelKeys(levels, j) \cap AllKeys(levels') = {}
                   /\ \A c \in 0..(Len(levels) - 1) :
                          Size(SubSeq(levels, 1, c + 1)) >= n => Len(levels') <= c + 1]_vars

\* A shrinking set_max_size(n) has returned and the cache holds exactly n
\* items, fewer than there are keys (max_size keeps the old value, see C5).
C15_Witness ==
    /\ last = "set_max_size"
    /\ failure = "none"
    /\ requested < max_size
    /\ Size(levels) = requested
    /\ requested < MaxKey
    /\ generation > MaxKey

(***************************************************************************)
(* C16: peek* on an Entry or on an Index with the cache's generation,      *)
(* iter, iter_mut, size, max_size, entry(key) and find_first (matching or  *)
(* not) leave the generation, size(), the key set and every key's level as *)
(* they were, and an Index that was valid before is still valid.           *)
(***************************************************************************)
C16_ReadOnlyOperationsKeepCache ==
    [][(\/ \E k \in Keys : EntryPeek(k)
        \/ Iter
        \/ \E pred \in SUBSET Keys : FindFirst(pred)
        \/ \E ix \in held : ix.generation = generation /\ IndexPeek(ix))
       => /\ generation' = generation
          /\ Size(levels') = Size(levels)
          /\ AllKeys(levels') = AllKeys(levels)
          /\ \A k \in AllKeys(levels) :
                 EntryOf(levels', k).level = EntryOf(levels, k).level
          /\ \A ix \in held :
                 ix.generation = generation => ix \in held' /\ ix.generation = generation']_vars

\* The client holds an Index that has the cache's generation and still
\* points at its key, below the top level of a cache with several items:
\* every read-only operation can be called and returns here.
C16_Witness ==
    /\ failure = "none"
    /\ Size(levels) >= 2
    /\ \E ix \in held : IndexResolvesTo(ix, ix.key) /\ ix.level >= 1

(***************************************************************************)
(* C17: constructing a cache with base < 2 or with a given max_size < 2    *)
(* fails, and set_max_size(n) with n < 2 fails before it changes anything: *)
(* levels, items, max_size and generation are as before the call.          *)
(***************************************************************************)
C17_InvalidArgumentsRejected ==
    /\ []((base < 2 \/ max_size < 2) =>
              (failure = "invalid_configuration" /\ last = "new" /\ levels = <<>>))
    /\ [][\A n \in SizeArgs :
               (n < 2 /\ SetMaxSize(n)) =>
                   /\ failure' = "invalid_argument"
                   /\ levels' = levels
                   /\ max_size' = max_size
                   /\ generation' = generation]_vars

\* set_max_size(1) was called on a cache that holds items and failed.
C17_Witness ==
    /\ last = "set_max_size"
    /\ failure = "invalid_argument"
    /\ Size(levels) >= 2
    /\ generation >= 2

(***************************************************************************)
(* C18: insert(k, v2) of a key that is in the cache at level p leaves k in *)
(* exactly one slot, at level max(p - 1, 0), with value v2; size() is      *)
(* unchanged and every other key is still in the cache, also when size()   *)
(* was max_size before the call.                                           *)
(***************************************************************************)
C18_ReinsertPromotesAndReplaces ==
    [][last' = "insert" =>
           \A k \in Keys, v2 \in ValueVals :
               (HasEntry(levels, k) /\ Insert(k, v2)) =>
                   /\ failure' = "none"
                   /\ Cardinality({s \in Slots(levels') : KeyAt(levels', s) = k}) = 1
                   /\ EntryOf(levels', k).level =
                          IF EntryOf(levels, k).level = 0 THEN 0
                          ELSE EntryOf(levels, k).level - 1
                   /\ PeekSlot(levels', EntryOf(levels', k).level,
                               EntryOf(levels', k).idx).item.val = v2
                   /\ Size(levels') = Size(levels)
                   /\ AllKeys(levels') = AllKeys(levels)]_vars

\* The cache is full after one more insert than it has items, and the item
\* of its top level carries the second value while another carries the first.
C18_Witness ==
    /\ last = "insert"
    /\ failure = "none"
    /\ Size(levels) = max_size
    /\ generation = max_size + 1
    /\ levels[1] # <<>>
    /\ levels[1][1].val = "v2"
    /\ \E s \in Slots(levels) : levels[s[1] + 1][s[2] + 1].val = "v1"

(***************************************************************************)
(* C19: insert(k, v) of a key that is not in the cache places k at level   *)
(* max(n - 2, 0), where n is the number of levels when insert is called.   *)
(***************************************************************************)
C19_NewKeyPlacedAtSecondLowest ==
    [][last' = "insert" =>
           \A k \in Keys, v \in Vals :
               (~HasEntry(levels, k) /\ Insert(k, v)) =>
                   /\ HasEntry(levels', k)
                   /\ EntryOf(levels', k).level =
                          IF Len(levels) < 2 THEN 0 ELSE Len(levels) - 2]_vars

(***************************************************************************)
(* C20: after an insert(k, v) of a key that was not in the cache, into a   *)
(* cache that had at least two levels, has returned, k is in a level       *)
(* strictly above the bottommost level of the resulting cache.             *)
(***************************************************************************)
C20_NewKeyAboveBottom ==
    [][last' = "insert" =>
           \A k \in Keys, v \in Vals :
               (/\ ~HasEntry(levels, k)
                /\ Len(levels) >= 2
                /\ Insert(k, v)
                /\ failure' = "none")
               => /\ HasEntry(levels', k)
                  /\ EntryOf(levels', k).level < Len(levels') - 1]_vars

\* The value stored with a key that is in the cache (what a peek on its
\* Entry reads).
ValueOf(lv, k) == lv[EntryOf(lv, k).level + 1][EntryOf(lv, k).idx + 1].val

(***************************************************************************)
(* C21: Entry::remove on the entry of key k returns k with its stored      *)
(* value and removes exactly k: size() decreases by one, every other key   *)
(* stays in its level with its value, and no level changes otherwise,      *)
(* except that the bottommost level is dropped if k was its only item.     *)
(***************************************************************************)
C21_RemoveTakesOnlyItsKey ==
    [][last' = "remove" =>
           \A k \in Keys :
               (HasEntry(levels, k) /\ EntryRemove(k)) =>
                   /\ failure' = "none"
                   /\ RemoveFrom(levels, generation,
                                 IndexOfEntry(levels, EntryOf(levels, k), generation)).item
                          = [key |-> k, val |-> ValueOf(levels, k)]
                   /\ Size(levels') = Size(levels) - 1
                   /\ AllKeys(levels') = AllKeys(levels) \ {k}
                   /\ \A j \in AllKeys(levels') :
                          /\ EntryOf(levels', j).level = EntryOf(levels, j).level
                          /\ ValueOf(levels', j) = ValueOf(levels, j)
                   /\ IF /\ EntryOf(levels, k).level = Len(levels) - 1
                         /\ Len(levels[Len(levels)]) = 1
                      THEN Len(levels') = Len(levels) - 1
                      ELSE Len(levels') = Len(levels)]_vars

\* The item of the top level was removed and an item of a lower level, with
\* the second value, stayed where it was.
C21_Witness ==
    /\ last = "remove"
    /\ failure = "none"
    /\ Len(levels) >= 2
    /\ levels[1] = <<>>
    /\ \E s \in Slots(levels) : levels[s[1] + 1][s[2] + 1].val = "v2"

(***************************************************************************)
(* C22: clear() leaves zero levels and size() = 0, strictly increases the  *)
(* generation, so that every Index made before it is stale, and leaves     *)
(* base and max_size as they were; an insert into the cleared cache puts   *)
(* the item into a new level 0, as on a newly constructed cache.           *)
(***************************************************************************)
C22_ClearEmptiesAndInvalidates ==
    [][last' \in {"clear", "insert"} =>
           /\ Clear =>
                  /\ levels' = <<>>
                  /\ Size(levels') = 0
                  /\ generation' > generation
                  /\ \A ix \in held : ix.generation # generation'
                  /\ base' = base
                  /\ max_size' = max_size
                  /\ failure' = "none"
           /\ \A k \in Keys, v \in Vals :
                  (levels = <<>> /\ Insert(k, v)) =>
                      /\ levels' = << <<[key |-> k, val |-> v]>> >>
                      /\ failure' = "none"]_vars

\* clear() has returned on a cache whose client holds an Index made after
\* an insert.
C22_Witness ==
    /\ last = "clear"
    /\ failure = "none"
    /\ levels = <<>>
    /\ generation >= 2
    /\ \E ix \in held : ix.generation >= 1

(***************************************************************************)
(* C23: the Entry that insert(k, v) returns peeks to (k, v), and the Entry *)
(* that a get* on the handle of key k with value v re-resolves to peeks to *)
(* (k, v) in the cache the call leaves, for every outcome of the cascade.  *)
(***************************************************************************)
C23_ReturnedEntryResolves ==
    [][last' \in {"insert", "get"} =>
           /\ \A k \in Keys, v \in ValueVals :
                  (Insert(k, v) /\ failure' = "none") =>
                      \A o \in InsertOutcomes(levels, generation, k, v) :
                          (o.levels = levels' /\ o.failure = "none") =>
                              PeekSlot(levels', o.entry.level, o.entry.idx)
                                  = [failure |-> "none", item |-> [key |-> k, val |-> v]]
           /\ \A k \in Keys :
                  (HasEntry(levels, k) /\ EntryGet(k)) =>
                      /\ failure' = "none"
                      /\ \A o \in GetOutcomes(levels, generation, k) :
                             o.levels = levels' =>
                                 PeekSlot(levels', o.entry.level, o.entry.idx)
                                     = [failure |-> "none",
                                        item |-> [key |-> k, val |-> ValueOf(levels, k)]]]_vars

\* A get has returned and left the top level empty: its key went from
\* level 2 to the end of level 1, behind another item.
C23_Witness ==
    /\ last = "get"
    /\ failure = "none"
    /\ Len(levels) = 2
    /\ levels[1] = <<>>
    /\ Len(levels[2]) = 2

\* Slot s comes before slot t when the levels are read in order and the
\* slots of a level in order.
LevelMajorBefore(s, t) == s[1] < t[1] \/ (s[1] = t[1] /\ s[2] < t[2])

(***************************************************************************)
(* C24: entry(key) returns a handle exactly when the key is in the cache,  *)
(* and the handle peeks to the key; find_first(pred) returns a handle to   *)
(* the first item, level 0 first and slot order within a level, that       *)
(* satisfies pred, and returns none exactly when no item satisfies it.     *)
(***************************************************************************)
C24_EntryAndFindFirstLocate ==
    /\ \A k \in Keys :
           /\ HasEntry(levels, k) <=> (\E s \in Slots(levels) : KeyAt(levels, s) = k)
           /\ HasEntry(levels, k) =>
                  PeekSlot(levels, EntryOf(levels, k).level, EntryOf(levels, k).idx)
                      = [failure |-> "none",
                         item |-> [key |-> k, val |-> ValueOf(levels, k)]]
    /\ \A pred \in SUBSET Keys :
           LET e == FindFirstEntry(levels, pred)
               matches == {s \in Slots(levels) : KeyAt(levels, s) \in pred}
           IN /\ e = NoEntry <=> matches = {}
              /\ e # NoEntry =>
                     /\ <<e.level, e.idx>> \in matches
                     /\ \A t \in matches : ~LevelMajorBefore(t, <<e.level, e.idx>>)

\* All keys are stored, one in the top level and two in the level below,
\* so a predicate can match in two levels and in two slots of one level.
C24_Witness ==
    /\ failure = "none"
    /\ Len(levels) >= 2
    /\ Len(levels[1]) = 1
    /\ Len(levels[2]) >= 2

(***************************************************************************)
(* C25: iter() yields every item of the cache exactly once, and an item of *)
(* level i is yielded before every item of a level j > i.                  *)
(***************************************************************************)
C25_IterInLevelOrder ==
    LET seq == IterItems(levels)
    IN /\ Len(seq) = Size(levels)
       /\ \A s \in Slots(levels) :
              Cardinality({p \in 1..Len(seq) : seq[p] = levels[s[1] + 1][s[2] + 1]}) = 1
       /\ \A p, q \in 1..Len(seq) :
              EntryOf(levels, seq[p].key).level < EntryOf(levels, seq[q].key).level
                  => p < q

\* Three levels hold an item each.
C25_Witness ==
    /\ failure = "none"
    /\ Len(levels) = 3
    /\ \A l \in 1..3 : levels[l] # <<>>

\* The level of key j after the step, -1 if it has left the cache.
LevelAfter(j) == IF HasEntry(levels', j) THEN EntryOf(levels', j).level ELSE -1

\* What one insert or get* of key k with target level t may do to the other
\* keys; evicted is 1 if the call first evicts an item of the bottommost
\* level and 0 otherwise.
OthersMoveAtMostOneDown(k, t, evicted) ==
    /\ \A j \in AllKeys(levels) \ {k} :
           LevelAfter(j) \in {EntryOf(levels, j).level, EntryOf(levels, j).level + 1, -1}
    /\ \A l \in 0..(Len(levels) - 1) :
           Cardinality({j \in LevelKeys(levels, l) \ {k} : LevelAfter(j) # l})
               <= IF l = Len(levels) - 1 THEN 1 + evicted ELSE 1
    /\ \A l \in 0..(t - 1) : l < Len(levels') /\ levels'[l + 1] = levels[l + 1]

(***************************************************************************)
(* C26: during one insert or get* with target level t, every key other     *)
(* than the inserted or promoted one stays in its level, moves down by     *)
(* exactly one level or leaves the cache; each level loses at most one     *)
(* item to the cascade, and the levels above t are untouched.              *)
(***************************************************************************)
C26_CascadeMovesOneLevel ==
    [][last' \in {"insert", "get"} =>
           /\ \A k \in Keys, v \in Vals :
                  Insert(k, v) =>
                      IF HasEntry(levels, k)
                      THEN OthersMoveAtMostOneDown(
                               k, IF EntryOf(levels, k).level = 0 THEN 0
                                  ELSE EntryOf(levels, k).level - 1, 0)
                      ELSE OthersMoveAtMostOneDown(
                               k, IF Len(levels) < 2 THEN 0 ELSE Len(levels) - 2,
                               IF Size(levels) = max_size THEN 1 ELSE 0)
           /\ \A k \in Keys :
                  (HasEntry(levels, k) /\ EntryGet(k)) =>
                      OthersMoveAtMostOneDown(
                          k, IF EntryOf(levels, k).level = 0 THEN 0
                             ELSE EntryOf(levels, k).level - 1, 0)]_vars

\* The third insert into an empty cache moved an item out of each of the
\* two levels it found: three levels hold one item each.
C26_Witness ==
    /\ last = "insert"
    /\ failure = "none"
    /\ generation = 3
    /\ Len(levels) = 3
    /\ \A l \in 1..3 : Len(levels[l]) = 1

(***************************************************************************)
(* C27: in every reachable state the level at index l holds at most base^l *)
(* items (level 0 holds at most one).                                      *)
(***************************************************************************)
C27_LevelWithinCapacity ==
    \A l \in 0..(Len(levels) - 1) : Len(levels[l + 1]) <= Pow(base, l)

\* With base 2, levels 0 and 1 are both full after more inserts and gets
\* than the two levels can hold.
C27_Witness ==
    /\ failure = "none"
    /\ base = 2
    /\ generation > 3
    /\ Len(levels) >= 2
    /\ Len(levels[1]) = 1
    /\ Len(levels[2]) = 2

(***************************************************************************)
(* C30: whenever insert_at_level reaches its final placement in a call     *)
(* made by insert or by get*, the target level exists and does not hold    *)
(* the key: no insert or get step ends in the out-of-range panic of        *)
(* self.levels[level] or in unreachable!().                                *)
(***************************************************************************)
C30_PlacementInRange ==
    last \in {"insert", "get"} => failure \notin {"index_out_of_bounds", "unreachable"}

\* An insert into a full cache: the eviction has shortened (and may have
\* popped) the last level before the placement.
C30_Witness ==
    /\ last = "insert"
    /\ failure = "none"
    /\ Size(levels) = max_size
    /\ generation > max_size + 1
    /\ Len(levels) = 2

(***************************************************************************)
(* C28: unused items are eventually discarded.  Once the only calls are    *)
(* get* on one key and the draws are fair, the cache eventually holds that *)
(* key alone (size() == 1).                                                *)
(***************************************************************************)
C28_UnusedItemsDiscarded ==
    (last = "drain_get") ~> (Size(levels) = 1 /\ HasEntry(levels, DrainKey))

\* The reads have emptied two levels below the key's own.
C28_Witness ==
    /\ last = "drain_get"
    /\ failure = "none"
    /\ Len(levels) = 3
    /\ Size(levels) = 1
    /\ HasEntry(levels, DrainKey)

====
